---- MODULE Spec2Model ----
(***************************************************************************)
(* Feature-state views of bullet-train-api (src/src/features/views.py):    *)
(* the administrative FeatureStateViewSet (create / update / destroy) and  *)
(* the SDK lookup endpoint SDKFeatureStates.get, over the tables           *)
(* Environment, Feature, Identity, FeatureState and FeatureStateValue.     *)
(*                                                                         *)
(* Requests are served concurrently.  A handler is one atomic step, except *)
(* where it reads a table and later inserts into it on the strength of     *)
(* that read (Identity get-then-create in SDKFeatureStates.get, is_valid-  *)
(* then-save in FeatureStateViewSet.create): those handlers are split at   *)
(* the insert and the half-served request waits in `inflight`.             *)
(* An exception that no handler catches is answered with status 500 and    *)
(* the exception's name as detail.  `response` is the response on its way  *)
(* to the client; the next step is served once it has left.                *)
(***************************************************************************)
EXTENDS Integers, Sequences, FiniteSets, Bags, TLC

VARIABLES identities, nextIdentityId, featureStates, featureStateValues,
          nextFeatureStateId, inflight, response

vars == <<identities, nextIdentityId, featureStates, featureStateValues,
          nextFeatureStateId, inflight, response>>

(***************************************************************************)
(* Bounds                                                                  *)
(***************************************************************************)
\* Largest primary key the FeatureState table hands out.
MaxFeatureStateId == 2
\* Largest primary key the Identity table hands out.
MaxIdentityId == 2
\* Largest number of half-served requests.
MaxInFlight == 2

(***************************************************************************)
(* Fixture rows and request alphabets                                      *)
(***************************************************************************)
\* identity=None in a FeatureState row (NULL foreign key).
None == 0
\* identifier=None / no identity_identifier in the URL.
NoIdentifier == ""
\* A dict without keys (request.GET without parameters).
EmptyDict == [k \in {} |-> ""]

Environments == { [id |-> 1, api_key |-> "k1", project |-> 1] }

Features ==
    { [id |-> 1, name |-> <<"D", "k">>, project |-> 1],
      [id |-> 2, name |-> <<"b">>, project |-> 2] }

ApiKeys == {"k1", "kX"}
Identifiers == {"u1"}
FeatureNames == { <<"d", "K">>, <<"b">> }
\* data['feature'] as it arrives: decimal digits.
FeatureRefs == { <<"1">>, <<"2">>, <<"1", "2">> }
\* Value of a FeatureStateValue whose type is none (set when the row is made).
NoValue == "none"
GoodValue == "5"
BadValue == "invalid"
ValuePayloads == {GoodValue, BadValue}

NoResponse == [op |-> "none", request |-> EmptyDict, status |-> 0,
               detail |-> "", body |-> {}]

Respond(op, request, status, detail, body) ==
    [op |-> op, request |-> request, status |-> status,
     detail |-> detail, body |-> body]

(***************************************************************************)
(* Conversions                                                             *)
(***************************************************************************)
LowerChar(c) ==
    CASE c = "D" -> "d"
      [] c = "K" -> "k"
      [] c = "B" -> "b"
      [] c = "Z" -> "z"
      [] OTHER -> c

\* name__iexact compares the two names case-insensitively.
IExact(a, b) ==
    /\ Len(a) = Len(b)
    /\ \A i \in 1..Len(a) : LowerChar(a[i]) = LowerChar(b[i])

DigitValue(c) ==
    CASE c = "0" -> 0 [] c = "1" -> 1 [] c = "2" -> 2 [] c = "3" -> 3
      [] c = "4" -> 4 [] c = "5" -> 5 [] c = "6" -> 6 [] c = "7" -> 7
      [] c = "8" -> 8 [] c = "9" -> 9

RECURSIVE ParseInt(_)
\* int(data['feature'])
ParseInt(s) ==
    IF Len(s) = 0 THEN 0
    ELSE 10 * ParseInt(SubSeq(s, 1, Len(s) - 1)) + DigitValue(s[Len(s)])

(***************************************************************************)
(* Table queries                                                           *)
(***************************************************************************)
EnvironmentsByKey(key) == {e \in Environments : e.api_key = key}

IdentitiesBy(identifier, environment) ==
    {i \in identities : i.identifier = identifier /\ i.environment = environment}

FeaturesByName(name, project) ==
    {f \in Features : IExact(f.name, name) /\ f.project = project}

\* The ids of every feature, whatever its project.
AllFeatureIds(project) == {f.id : f \in Features}

\* [feature.id for feature in environment.project.features.all()]
ProjectFeatureIds(project) == {f.id : f \in {g \in Features : g.project = project}}

FeatureStatesBy(environment, feature, identity) ==
    {s \in featureStates : /\ s.environment = environment
                           /\ s.feature = feature
                           /\ s.identity = identity}

FeatureStatesOf(environment, identity) ==
    {s \in featureStates : s.environment = environment /\ s.identity = identity}

ValueOf(values, id) ==
    LET vs == {v \in values : v.feature_state = id}
    IN IF vs = {} THEN NoValue ELSE (CHOOSE v \in vs : TRUE).value

\* What the serializers show of a FeatureState row.
Serialize(s, values) ==
    [id |-> s.id, feature |-> s.feature, environment |-> s.environment,
     identity |-> s.identity, enabled |-> s.enabled,
     feature_state_value |-> ValueOf(values, s.id)]

SerializeMany(rows, values) == {Serialize(s, values) : s \in rows}

Init ==
    /\ identities = {}
    /\ nextIdentityId = 1
    /\ featureStates =
         { [id |-> 1, feature |-> 1, environment |-> 1, identity |-> None,
            enabled |-> FALSE] }
    /\ featureStateValues = { [feature_state |-> 1, value |-> NoValue] }
    /\ nextFeatureStateId = 2
    /\ inflight = EmptyBag
    /\ response = NoResponse

(***************************************************************************)
(* SDKFeatureStates.get                                                    *)
(***************************************************************************)
SdkMetas ==
    { [REQUEST_METHOD |-> "GET"] } \cup
    { [REQUEST_METHOD |-> "GET", HTTP_X_ENVIRONMENT_KEY |-> k] : k \in ApiKeys }

SdkQueries == {EmptyDict} \cup { [feature |-> n] : n \in FeatureNames }

\* identity.get_all_feature_states(): the identity's own rows, and the
\* environment's rows for the features the identity does not override.
GetAllFeatureStates(identity, environment) ==
    LET identity_flags == FeatureStatesOf(environment, identity)
        overridden == {s.feature : s \in identity_flags}
    IN [identity_flags |-> identity_flags,
        environment_flags |->
            {s \in FeatureStatesOf(environment, None) : s.feature \notin overridden}]
\* Lines 197-224: the lookup once the identity is known.
SdkIdentityFlags(request, environment, identity) ==
    IF "feature" \in DOMAIN request.GET
    THEN LET features == FeaturesByName(request.GET.feature, environment.project)
         IN IF features = {}
            THEN Respond("sdk", request, 404, "Given feature not found", {})
            ELSE IF Cardinality(features) > 1
            THEN Respond("sdk", request, 500, "MultipleObjectsReturned", {})
            ELSE LET feature == CHOOSE f \in features : TRUE
                     own == FeatureStatesBy(environment.id, feature.id, identity.id)
                     fallback == FeatureStatesBy(environment.id, feature.id, None)
                 IN IF Cardinality(own) = 1
                    THEN Respond("sdk", request, 200, "",
                                 SerializeMany(own, featureStateValues))
                    ELSE IF Cardinality(own) > 1
                    THEN Respond("sdk", request, 500, "MultipleObjectsReturned", {})
                    \* except FeatureState.DoesNotExist: a second get, whose
                    \* own DoesNotExist nothing catches.
                    ELSE IF Cardinality(fallback) = 1
                    THEN Respond("sdk", request, 200, "",
                                 SerializeMany(fallback, featureStateValues))
                    ELSE IF fallback = {}
                    THEN Respond("sdk", request, 500, "DoesNotExist", {})
                    ELSE Respond("sdk", request, 500, "MultipleObjectsReturned", {})
    ELSE LET flags == GetAllFeatureStates(identity.id, environment.id)
         IN Respond("sdk", request, 200, "",
                    SerializeMany(flags.environment_flags, featureStateValues)
                      \cup SerializeMany(flags.identity_flags, featureStateValues))

\* Lines 226-244: the lookup without an identifier.  With a feature name the
\* body is what the serializer shows of the filtered rows (line 238).
SdkEnvironmentFlags(request, environment) ==
    IF "feature" \in DOMAIN request.GET
    THEN LET features == FeaturesByName(request.GET.feature, environment.project)
         IN IF features = {}
            THEN Respond("sdk", request, 404, "Given feature not found", {})
            ELSE IF Cardinality(features) > 1
            THEN Respond("sdk", request, 500, "MultipleObjectsReturned", {})
            ELSE LET feature == CHOOSE f \in features : TRUE
                 IN Respond("sdk", request, 200, "",
                            SerializeMany(FeatureStatesBy(environment.id, feature.id, None),
                                          featureStateValues))
    ELSE Respond("sdk", request, 200, "",
                 SerializeMany(FeatureStatesOf(environment.id, None),
                               featureStateValues))

\* The key check with a missing header taken for a key of no environment.
SdkEnvironmentOr404(META) ==
    IF "HTTP_X_ENVIRONMENT_KEY" \notin DOMAIN META
         \/ EnvironmentsByKey(META.HTTP_X_ENVIRONMENT_KEY) = {}
    THEN [status |-> 404, detail |-> "Not found.", environments |-> {}]
    ELSE [status |-> 200, detail |-> "",
          environments |-> EnvironmentsByKey(META.HTTP_X_ENVIRONMENT_KEY)]

\* Lines 185-189: the environment the key header names, or the failure.
SdkEnvironment(META) ==
    IF "HTTP_X_ENVIRONMENT_KEY" \notin DOMAIN META
    THEN [status |-> 400, detail |-> "Environment Key header not provided",
          environments |-> {}]
    ELSE IF EnvironmentsByKey(META.HTTP_X_ENVIRONMENT_KEY) = {}
    THEN [status |-> 404, detail |-> "Not found.", environments |-> {}]
    ELSE [status |-> 200, detail |-> "",
          environments |-> EnvironmentsByKey(META.HTTP_X_ENVIRONMENT_KEY)]

\* Identity.objects.create: the Identity table takes the row; the store holds
\* no constraint on (environment, identifier).
IdentityInsert(rows, row) == rows \cup {row}

\* Lines 184-194 and, when the Identity is found or no identifier is given,
\* the rest of the handler.  On a miss the request goes on to line 195.
SdkGet(META, identifier, GET) ==
    LET request == [META |-> META, identifier |-> identifier, GET |-> GET]
        answer(r) == /\ response' = r
                     /\ UNCHANGED <<identities, nextIdentityId, inflight>>
    IN /\ response = NoResponse
       /\ UNCHANGED <<featureStates, featureStateValues, nextFeatureStateId>>
       /\ LET keyed == SdkEnvironment(META)
          IN IF keyed.status # 200
             THEN answer(Respond("sdk", request, keyed.status, keyed.detail, {}))
             ELSE LET environment == CHOOSE e \in keyed.environments : TRUE
                      found == IdentitiesBy(identifier, environment.id)
                  IN IF identifier = NoIdentifier
                     THEN answer(SdkEnvironmentFlags(request, environment))
                     ELSE IF Cardinality(found) = 1
                     THEN answer(SdkIdentityFlags(request, environment,
                                                  CHOOSE i \in found : TRUE))
                     ELSE IF Cardinality(found) > 1
                     THEN answer(Respond("sdk", request, 500,
                                         "MultipleObjectsReturned", {}))
                     ELSE /\ BagCardinality(inflight) < MaxInFlight
                          /\ inflight' = inflight (+)
                               SetToBag({[op |-> "sdk", request |-> request,
                                          environment |-> environment]})
                          /\ response' = NoResponse
                          /\ UNCHANGED <<identities, nextIdentityId>>

\* Line 195, Identity.objects.create after the miss, and lines 197-224.
SdkCreateIdentity(p) ==
    LET identity == [id |-> nextIdentityId, identifier |-> p.request.identifier,
                     environment |-> p.environment.id]
    IN /\ p.op = "sdk"
       /\ response = NoResponse
       /\ nextIdentityId <= MaxIdentityId
       /\ identities' = IdentityInsert(identities, identity)
       /\ nextIdentityId' = nextIdentityId + 1
       /\ inflight' = inflight (-) SetToBag({p})
       /\ response' = SdkIdentityFlags(p.request, p.environment, identity)
       /\ UNCHANGED <<featureStates, featureStateValues, nextFeatureStateId>>

(***************************************************************************)
(* FeatureStateViewSet                                                     *)
(***************************************************************************)
CreateDatas ==
    {EmptyDict}
      \cup { [feature |-> f] : f \in FeatureRefs }
      \cup { [feature |-> <<"1">>, feature_state_value |-> v] : v \in ValuePayloads }

UpdateDatas ==
    { [feature_state_value |-> v] : v \in ValuePayloads }
      \cup { [enabled |-> b] : b \in BOOLEAN }
      \cup { [enabled |-> TRUE, feature_state_value |-> v] : v \in ValuePayloads }

\* FeatureStateValueSerializer(...).is_valid() on the dict that
\* generate_feature_state_value_data makes of the payload value.
ValueIsValid(value) == value # BadValue

\* FeatureStateSerializerBasic(data=data).is_valid(): the row's
\* (feature, environment, identity) must not be taken.
FeatureStateIsValid(environment, feature, identity) ==
    FeatureStatesBy(environment, feature, identity) = {}

\* The store's uniqueness constraint on (environment, feature, identity).
UniqueConstraintHolds(rows, row) ==
    \A s \in rows : ~ /\ s.environment = row.environment
                      /\ s.feature = row.feature
                      /\ s.identity = row.identity

\* update_feature_state_value, lines 152-166: the values table afterwards
\* and whether a FeatureStateValue (ok) or a Response came back.
UpdateFeatureStateValue(values, feature_state, value) ==
    IF ValueIsValid(value)
    THEN [ok |-> TRUE,
          values |-> {v \in values : v.feature_state # feature_state}
                       \cup {[feature_state |-> feature_state, value |-> value]}]
    ELSE [ok |-> FALSE, values |-> values]

\* Lines 81-100 of create: everything up to and including is_valid().
Create(environment_api_key, identity_identifier, data) ==
    LET request == [environment_api_key |-> environment_api_key,
                    identity_identifier |-> identity_identifier, data |-> data]
        answer(status, detail) ==
            /\ response' = Respond("create", request, status, detail, {})
            /\ UNCHANGED inflight
        environments == EnvironmentsByKey(environment_api_key)
    IN /\ response = NoResponse
       /\ UNCHANGED <<identities, nextIdentityId, featureStates,
                      featureStateValues, nextFeatureStateId>>
       /\ IF environments = {}
          THEN answer(500, "DoesNotExist")
          ELSE LET environment == CHOOSE e \in environments : TRUE
               IN IF "feature" \notin DOMAIN data
                  THEN answer(400, "Feature not provided")
                  ELSE LET feature_id == ParseInt(data.feature)
                           found == IdentitiesBy(identity_identifier, environment.id)
                           identity == IF identity_identifier = NoIdentifier
                                       THEN None
                                       ELSE (CHOOSE i \in found : TRUE).id
                       IN IF feature_id \notin ProjectFeatureIds(environment.project)
                          THEN answer(400, "Feature does not exist in project")
                          ELSE IF identity_identifier # NoIdentifier /\ found = {}
                          THEN answer(500, "DoesNotExist")
                          ELSE IF identity_identifier # NoIdentifier
                                    /\ Cardinality(found) > 1
                          THEN answer(500, "MultipleObjectsReturned")
                          ELSE IF ~ FeatureStateIsValid(environment.id, feature_id,
                                                        identity)
                          THEN answer(400, "Couldn't create feature state.")
                          ELSE /\ BagCardinality(inflight) < MaxInFlight
                               /\ inflight' = inflight (+)
                                    SetToBag({[op |-> "create", request |-> request,
                                               environment |-> environment.id,
                                               feature |-> feature_id,
                                               identity |-> identity]})
                               /\ response' = NoResponse

\* Lines 101-109 of create: serializer.save(), the value, the 201.
CreateSave(p) ==
    /\ p.op = "create"
    /\ response = NoResponse
    /\ inflight' = inflight (-) SetToBag({p})
    /\ UNCHANGED <<identities, nextIdentityId>>
    /\ LET feature_state == [id |-> nextFeatureStateId, feature |-> p.feature,
                             environment |-> p.environment,
                             identity |-> p.identity, enabled |-> FALSE]
           saved == featureStateValues
                      \cup {[feature_state |-> feature_state.id, value |-> NoValue]}
           valued == IF "feature_state_value" \in DOMAIN p.request.data
                     THEN UpdateFeatureStateValue(saved, feature_state.id,
                                                  p.request.data.feature_state_value).values
                     ELSE saved
       IN IF UniqueConstraintHolds(featureStates, feature_state)
          THEN /\ nextFeatureStateId <= MaxFeatureStateId
               /\ featureStates' = featureStates \cup {feature_state}
               /\ featureStateValues' = valued
               /\ nextFeatureStateId' = nextFeatureStateId + 1
               /\ response' = Respond("create", p.request, 201, "",
                                      {Serialize(feature_state, valued)})
          ELSE /\ response' = Respond("create", p.request, 500, "IntegrityError", {})
               /\ UNCHANGED <<featureStates, featureStateValues, nextFeatureStateId>>

\* The update with a serializer that is not partial: a field the payload does
\* not carry falls back to the model's default.
PerformFullUpdate(feature_state, data) ==
    [feature_state EXCEPT !.enabled = IF "enabled" \in DOMAIN data
                                      THEN data.enabled ELSE FALSE]

\* Lines 133-136: the serializer is partial, so a field the payload does not
\* carry keeps its value.
PerformUpdate(feature_state, data) ==
    IF "enabled" \in DOMAIN data
    THEN [feature_state EXCEPT !.enabled = data.enabled]
    ELSE feature_state

\* get_queryset and get_object, lines 47-60: the row the URL names, or the
\* status and detail of the failure.
GetObject(environment_api_key, identity_identifier, pk) ==
    LET environments == EnvironmentsByKey(environment_api_key)
        environment == CHOOSE e \in environments : TRUE
        found == IdentitiesBy(identity_identifier, environment.id)
        identity == IF identity_identifier = NoIdentifier THEN None
                    ELSE (CHOOSE i \in found : TRUE).id
        rows == {s \in FeatureStatesOf(environment.id, identity) : s.id = pk}
    IN IF environments = {}
       THEN [status |-> 500, detail |-> "DoesNotExist", rows |-> {}]
       ELSE IF identity_identifier # NoIdentifier /\ found = {}
       THEN [status |-> 500, detail |-> "DoesNotExist", rows |-> {}]
       ELSE IF identity_identifier # NoIdentifier /\ Cardinality(found) > 1
       THEN [status |-> 500, detail |-> "MultipleObjectsReturned", rows |-> {}]
       ELSE IF rows = {}
       THEN [status |-> 404, detail |-> "Not found.", rows |-> {}]
       ELSE [status |-> 200, detail |-> "", rows |-> rows]

\* update and partial_update, lines 114-150.
Update(environment_api_key, identity_identifier, pk, data) ==
    LET request == [environment_api_key |-> environment_api_key,
                    identity_identifier |-> identity_identifier,
                    pk |-> pk, data |-> data]
        object == GetObject(environment_api_key, identity_identifier, pk)
        feature_state_to_update == CHOOSE s \in object.rows : TRUE
        valued == IF "feature_state_value" \in DOMAIN data
                  THEN UpdateFeatureStateValue(featureStateValues,
                                               feature_state_to_update.id,
                                               data.feature_state_value)
                  ELSE [ok |-> TRUE, values |-> featureStateValues]
        updated == PerformUpdate(feature_state_to_update, data)
    IN /\ response = NoResponse
       /\ UNCHANGED <<identities, nextIdentityId, nextFeatureStateId, inflight>>
       /\ IF object.status # 200
          THEN /\ response' = Respond("update", request, object.status,
                                      object.detail, {})
               /\ UNCHANGED <<featureStates, featureStateValues>>
          ELSE IF ~ valued.ok
          \* feature_state_value.id on the Response that came back
          THEN /\ response' = Respond("update", request, 500, "AttributeError", {})
               /\ UNCHANGED <<featureStates, featureStateValues>>
          ELSE /\ featureStateValues' = valued.values
               /\ featureStates' =
                    (featureStates \ {feature_state_to_update}) \cup {updated}
               /\ response' = Respond("update", request, 200, "",
                                      {Serialize(updated, valued.values)})

\* destroy (the view set's delete, lines 15-37): the row and its value go.
Destroy(environment_api_key, identity_identifier, pk) ==
    LET request == [environment_api_key |-> environment_api_key,
                    identity_identifier |-> identity_identifier, pk |-> pk]
        object == GetObject(environment_api_key, identity_identifier, pk)
    IN /\ response = NoResponse
       /\ UNCHANGED <<identities, nextIdentityId, nextFeatureStateId, inflight>>
       /\ IF object.status # 200
          THEN /\ response' = Respond("destroy", request, object.status,
                                      object.detail, {})
               /\ UNCHANGED <<featureStates, featureStateValues>>
          ELSE /\ featureStates' = featureStates \ object.rows
               /\ featureStateValues' =
                    {v \in featureStateValues :
                       v.feature_state \notin {s.id : s \in object.rows}}
               /\ response' = Respond("destroy", request, 204, "", {})

\* The response leaves for the client.
Deliver ==
    /\ response # NoResponse
    /\ response' = NoResponse
    /\ UNCHANGED <<identities, nextIdentityId, featureStates, featureStateValues,
                   nextFeatureStateId, inflight>>

Next ==
    \/ \E META \in SdkMetas, identifier \in Identifiers \cup {NoIdentifier},
          GET \in SdkQueries : SdkGet(META, identifier, GET)
    \/ \E p \in BagToSet(inflight) : SdkCreateIdentity(p)
    \/ \E key \in ApiKeys, identifier \in Identifiers \cup {NoIdentifier},
          data \in CreateDatas : Create(key, identifier, data)
    \/ \E p \in BagToSet(inflight) : CreateSave(p)
    \/ \E key \in ApiKeys, identifier \in Identifiers \cup {NoIdentifier},
          pk \in 1..MaxFeatureStateId, data \in UpdateDatas :
            Update(key, identifier, pk, data)
    \/ \E key \in ApiKeys, identifier \in Identifiers \cup {NoIdentifier},
          pk \in 1..MaxFeatureStateId : Destroy(key, identifier, pk)
    \/ Deliver

Spec == Init /\ [][Next]_vars

(***************************************************************************)
(* Properties                                                              *)
(***************************************************************************)
\* The step answers a request of handler op.
Answers(op) == response = NoResponse /\ response'.op = op

StoreUnchanged ==
    UNCHANGED <<identities, nextIdentityId, featureStates, featureStateValues,
                nextFeatureStateId>>

\* The environments an SDK request's key header names.
SdkKeyed(request) ==
    IF "HTTP_X_ENVIRONMENT_KEY" \in DOMAIN request.META
    THEN {e \in Environments : e.api_key = request.META.HTTP_X_ENVIRONMENT_KEY}
    ELSE {}

\* The features of the environment's project an SDK request's `feature`
\* parameter names, case-insensitively.
SdkNamed(request, environment) ==
    IF "feature" \in DOMAIN request.GET
    THEN {f \in Features : /\ f.project = environment.project
                           /\ IExact(f.name, request.GET.feature)}
    ELSE {}

RowsOf(environment, feature, identity) ==
    {s \in featureStates : /\ s.environment = environment
                           /\ s.feature = feature
                           /\ s.identity = identity}

Shown(rows) == {Serialize(s, featureStateValues) : s \in rows}

\* The environments an administrative request's path names.
AdminKeyed(request) ==
    {e \in Environments : e.api_key = request.environment_api_key}

\* The identities an administrative request's path names (None without an
\* identity segment).
AdminIdentities(request, environment) ==
    IF request.identity_identifier = NoIdentifier
    THEN {None}
    ELSE {i.id : i \in {j \in identities :
                          /\ j.identifier = request.identity_identifier
                          /\ j.environment = environment.id}}

\* The create request names an environment, a feature of its project and
\* an identity (or none).
CreateWellFormed(request) ==
    /\ AdminKeyed(request) # {}
    /\ "feature" \in DOMAIN request.data
    /\ \A e \in AdminKeyed(request) :
         /\ \E f \in Features : f.project = e.project
                                  /\ f.id = ParseInt(request.data.feature)
         /\ Cardinality(AdminIdentities(request, e)) = 1

\* A FeatureState exists for the tuple the create request names.
TupleTaken(request) ==
    /\ CreateWellFormed(request)
    /\ \E e \in AdminKeyed(request) : \E i \in AdminIdentities(request, e) :
         RowsOf(e.id, ParseInt(request.data.feature), i) # {}

InvalidValue(request) ==
    /\ "feature_state_value" \in DOMAIN request.data
    /\ request.data.feature_state_value = BadValue

\* C1: an SDK lookup with identifier and feature name returns the identity's
\* FeatureState when there is one and the environment-level one otherwise;
\* a lookup with the feature name and no identifier returns the
\* environment-level FeatureState and never an identity-scoped one.
C1_Lookup ==
    (response.op = "sdk") =>
      \A e \in SdkKeyed(response.request) :
      \A f \in SdkNamed(response.request, e) :
        LET E == RowsOf(e.id, f.id, None)
        IN IF response.request.identifier = NoIdentifier
           THEN /\ (E # {}) => (response.status = 200 /\ response.body = Shown(E))
                /\ \A b \in response.body : b.identity = None
           ELSE \A i \in identities :
                  (i.identifier = response.request.identifier
                     /\ i.environment = e.id) =>
                    LET I == RowsOf(e.id, f.id, i.id)
                    IN /\ (I # {}) =>
                            (response.status = 200 /\ response.body = Shown(I))
                       /\ (I = {} /\ E # {}) =>
                            (response.status = 200 /\ response.body = Shown(E))

\* The identifier of the answered SDK request names at most one Identity of
\* each environment.
IdentifierUnambiguous ==
    \A i, j \in identities :
      (/\ i.identifier = response.request.identifier
       /\ j.identifier = response.request.identifier
       /\ i.environment = j.environment) => i = j

\* The lookup of C1 where the identifier names a single Identity.
LookupOfSingleIdentity ==
    (response.op = "sdk" /\ IdentifierUnambiguous) => C1_Lookup

\* At most one FeatureState per (environment, feature, identity).
UniqueFeatureStates ==
    \A s, t \in featureStates :
      (s.environment = t.environment /\ s.feature = t.feature
         /\ s.identity = t.identity) => s = t

\* C2: at most one FeatureState exists per (environment, feature, identity),
\* and a create for a tuple that already has one is answered with 400 or 409.
C2_UniqueOrRefused ==
    /\ []UniqueFeatureStates
    /\ [][(Answers("create") /\ TupleTaken(response'.request))
            => response'.status \in {400, 409}]_vars

\* C3: an SDK lookup with a valid key whose `feature` parameter names no
\* feature of the environment's project is answered 404 "Given feature not
\* found", with or without an identifier.
C3_UnknownFeature ==
    (response.op = "sdk" /\ "feature" \in DOMAIN response.request.GET) =>
      \A e \in SdkKeyed(response.request) :
        (SdkNamed(response.request, e) = {}) =>
          /\ response.status = 404
          /\ response.detail = "Given feature not found"

\* The lookup of C3 where the identifier names a single Identity.
UnknownFeatureOfSingleIdentity ==
    (response.op = "sdk" /\ IdentifierUnambiguous) => C3_UnknownFeature

\* C4: an SDK lookup without the key header is answered 400, one with a key
\* of no environment 404, and neither creates an Identity or changes a table.
C4_KeyChecked ==
    [][(Answers("sdk") /\ SdkKeyed(response'.request) = {}) =>
         /\ response'.status =
              IF "HTTP_X_ENVIRONMENT_KEY" \in DOMAIN response'.request.META
              THEN 404 ELSE 400
         /\ StoreUnchanged
         /\ UNCHANGED inflight]_vars

C4_Witness ==
    /\ response.op = "sdk"
    /\ "HTTP_X_ENVIRONMENT_KEY" \in DOMAIN response.request.META
    /\ SdkKeyed(response.request) = {}
    /\ response.request.identifier # NoIdentifier
    /\ response.status = 404
    /\ identities = {}

C6_NoPartialCommit ==
    [][(Answers("create") /\ CreateWellFormed(response'.request)) =>
         /\ InvalidValue(response'.request) =>
              (response'.status = 400 /\ StoreUnchanged)
         /\ (/\ response'.status = 201
             /\ "feature_state_value" \in DOMAIN response'.request.data) =>
              \A b \in response'.body :
                b.feature_state_value = response'.request.data.feature_state_value]_vars

\* C7: an update whose feature_state_value is invalid is answered 400 and
\* leaves the FeatureState and its value as they were.
C7_InvalidValueUpdate ==
    [][(/\ Answers("update")
        /\ InvalidValue(response'.request)
        /\ \E e \in AdminKeyed(response'.request) :
           \E i \in AdminIdentities(response'.request, e) :
           \E s \in featureStates : /\ s.id = response'.request.pk
                                    /\ s.environment = e.id
                                    /\ s.identity = i) =>
         /\ response'.status = 400
         /\ StoreUnchanged]_vars

\* C8: an update whose payload holds only feature_state_value changes only
\* the value of the FeatureState it names: every FeatureState keeps its
\* enabled flag, feature, environment and identity, and every other
\* FeatureState its value.
C8_ValueOnlyUpdate ==
    [][(/\ Answers("update")
        /\ DOMAIN response'.request.data = {"feature_state_value"}) =>
         /\ featureStates' = featureStates
         /\ identities' = identities
         /\ {v \in featureStateValues' : v.feature_state # response'.request.pk}
              = {v \in featureStateValues : v.feature_state # response'.request.pk}
         /\ (response'.status = 200) =>
              /\ \E v \in featureStateValues' :
                   /\ v.feature_state = response'.request.pk
                   /\ v.value = response'.request.data.feature_state_value
              /\ Cardinality({v \in featureStateValues' :
                                v.feature_state = response'.request.pk}) = 1]_vars

C8_Witness ==
    /\ response.op = "update"
    /\ response.status = 200
    /\ DOMAIN response.request.data = {"feature_state_value"}
    /\ \E s \in featureStates : /\ s.id = response.request.pk
                                /\ s.enabled
                                /\ s.identity # None
    /\ \E v \in featureStateValues : /\ v.feature_state = response.request.pk
                                     /\ v.value = GoodValue

\* C9: an SDK lookup with an identifier and the name of a feature that has
\* neither an identity-scoped nor an environment-level FeatureState is
\* answered 404.
C9_NoStateNotFound ==
    (response.op = "sdk" /\ response.request.identifier # NoIdentifier) =>
      \A e \in SdkKeyed(response.request) :
      \A f \in SdkNamed(response.request, e) :
        (/\ RowsOf(e.id, f.id, None) = {}
         /\ \A i \in identities :
              (i.identifier = response.request.identifier /\ i.environment = e.id)
                => RowsOf(e.id, f.id, i.id) = {}) =>
          response.status = 404

\* C10: there is never more than one Identity per (environment, identifier),
\* and exactly one once a lookup with that identifier has been answered.
C10_OneIdentity ==
    /\ \A i, j \in identities :
         (i.environment = j.environment /\ i.identifier = j.identifier) => i = j
    /\ (response.op = "sdk" /\ response.request.identifier # NoIdentifier) =>
         \A e \in SdkKeyed(response.request) :
           \E i \in identities : /\ i.environment = e.id
                                 /\ i.identifier = response.request.identifier
====
